---- MODULE Spec2Model ----
(***************************************************************************)
(* django-xtdb: the database backend (base.py), the SQL compilers          *)
(* (compiler.py) and the Field.contribute_to_class patch (patch.py).       *)
(*                                                                         *)
(* Four specifications share this module:                                  *)
(*   Spec        one caller issuing whole requests on one connection       *)
(*   SpecPatch   the field patch applied to one field                      *)
(*   SpecClock   the identifier default time.time_ns                       *)
(*   SpecThreads two callers whose statement steps interleave              *)
(***************************************************************************)
EXTENDS Integers, Sequences, FiniteSets, TLC

VARIABLES
    connected,      \* self.connection.connection is not None
    read_only,      \* connection.read_only: "None" (never set), "True", "False"
    tx_depth,       \* number of open connection.transaction() scopes
    calls,          \* what the last request did to the connection, in order
    last,           \* the last request: its inputs, the state before it, its result
    field,          \* the Field that contribute_to_class is applied to
    before,         \* that field as it was before the patch ran
    orig_calls,     \* argument lists the framework's original was called with
    patches,        \* how many times monkey_patch() has run
    clock,          \* the system clock, nanoseconds since the epoch
    prev_id,        \* identifier allocated before the latest one (0: none)
    cur_id,         \* identifier allocated latest (0: none)
    pc,             \* per thread: position inside execute_sql
    stmt,           \* per thread: category of the statement in progress
    serialize,      \* the caller holds a lock around each statement
    mismatch,       \* a statement was sent while read_only did not match it
    changed_in_tx   \* read_only was changed while another transaction was open

connVars   == <<connected, read_only, tx_depth, calls, last>>
patchVars  == <<field, before, orig_calls, patches>>
clockVars  == <<clock, prev_id, cur_id>>
threadVars == <<pc, stmt, serialize, mismatch, changed_in_tx>>
vars == <<connected, read_only, tx_depth, calls, last, field, before,
          orig_calls, patches, clock, prev_id, cur_id, pc, stmt, serialize, mismatch,
          changed_in_tx>>

(***************************************************************************)
(* Bounds                                                                  *)
(***************************************************************************)
MaxTables == 2      \* longest table list given to sql_flush
MaxRows == 2        \* most rows the introspection query returns
MaxCount == 2       \* largest row count the store answers
MaxClock == 6       \* largest clock reading
MaxPatches == 2     \* most calls of monkey_patch
NumThreads == 2     \* callers sharing one connection

Categories == {"SELECT", "INSERT", "UPDATE", "DELETE"}
Outcomes == {"ok", "raise"}
StoreCounts == -1 .. MaxCount       \* -1: the store reports no count

(***************************************************************************)
(* The driver connection, as the backend uses it.  A connection value is   *)
(* [open, read_only, depth, calls].                                        *)
(***************************************************************************)
Ev(kind, arg, c) ==
    [ev |-> kind, arg |-> arg, ro |-> c.read_only, depth |-> c.depth]

\* connection.read_only = v
set_read_only_mut(c, v) ==
    [c EXCEPT !.calls = Append(@, [ev |-> "set_read_only", arg |-> v,
                                   ro |-> c.read_only, depth |-> c.depth])]

set_read_only(c, v) ==
    [c EXCEPT !.read_only = v,
              !.calls = Append(@, [ev |-> "set_read_only", arg |-> v,
                                   ro |-> v, depth |-> c.depth])]

\* with connection.transaction(): entering the block
transaction_enter(c) ==
    [c EXCEPT !.depth = @ + 1, !.calls = Append(@, Ev("begin", "", c))]

\* with connection.transaction(): leaving the block, normally or by exception
transaction_exit_mut(c, raised) ==
    IF raised THEN c
    ELSE [c EXCEPT !.depth = @ - 1, !.calls = Append(@, Ev("commit", "", c))]

transaction_exit(c, raised) ==
    [c EXCEPT !.depth = @ - 1,
              !.calls = Append(@, Ev(IF raised THEN "rollback" ELSE "commit",
                                     "", c))]

\* cursor.execute(sql): the statement goes to the store
cursor_execute(c, sql) ==
    [c EXCEPT !.calls = Append(@, Ev("execute", sql, c))]

\* self.connection.cursor() of the framework: connects when not connected
ensure_connection(c) ==
    IF c.open THEN c
    ELSE [c EXCEPT !.open = TRUE, !.read_only = "None",
                   !.calls = Append(@, Ev("connect", "", c))]

\* super().execute_sql(...): the framework compiles and executes the statement
super_execute_sql(c, cat) == cursor_execute(ensure_connection(c), cat)

(***************************************************************************)
(* compiler.py                                                             *)
(***************************************************************************)
\* the value each compiler assigns to read_only
ModeFor_mut(cat) == "True"

ModeFor(cat) == IF cat = "SELECT" THEN "True" ELSE "False"

\* the connection after <cat>Compiler.execute_sql
execute_sql(c, cat, outcome) ==
    IF c.open
    THEN LET c1 == set_read_only(c, ModeFor(cat))
             c2 == transaction_enter(c1)
             c3 == super_execute_sql(c2, cat)
         IN  transaction_exit(c3, outcome = "raise")
    ELSE super_execute_sql(c, cat)

\* the connection after SQLAggregateCompiler.execute_sql: the class is the
\* framework's own, imported unchanged, so none of the overrides above runs
aggregate_execute_sql(c, outcome) == super_execute_sql(c, "SELECT")

\* what <cat>Compiler.execute_sql returns when it completes
Return_mut(cat, store_ret) == store_ret

Return(cat, store_ret) == IF cat = "UPDATE" THEN 1 ELSE store_ret

(***************************************************************************)
(* base.py: DatabaseSchemaEditor                                           *)
(***************************************************************************)
Models == {"Article", "Reporter"}

create_model_mut(c, model) == cursor_execute(c, "CREATE TABLE")

create_model(c, model) == c

alter_unique_together(c, args) == c

remove_field(c, args) == c

alter_field(c, args) == c

add_field(c, args) == c

(***************************************************************************)
(* base.py: DatabaseOperations.  SQL text is a sequence of characters; the *)
(* two escape sequences of a colour style are one element each.            *)
(***************************************************************************)
Styles == {"no_style", "color_style"}

TableNames == { <<"a">>, <<"b">>, <<"\"", "c", "\"">> }

TableSeqs == UNION { [1 .. n -> TableNames] : n \in 0 .. MaxTables }

\* style.SQL_KEYWORD(text)
SQL_KEYWORD(style, text) ==
    IF style = "no_style" THEN text
    ELSE <<"ESC[33m">> \o text \o <<"ESC[0m">>

\* style.SQL_FIELD(text)
SQL_FIELD(style, text) ==
    IF style = "no_style" THEN text
    ELSE <<"ESC[32;1m">> \o text \o <<"ESC[0m">>

\* self.quote_name(name): already quoted names are left alone
quote_name(name) ==
    IF Len(name) > 0 /\ name[1] = "\"" /\ name[Len(name)] = "\""
    THEN name
    ELSE <<"\"">> \o name \o <<"\"">>

\* "{} {} {};".format(keyword DELETE, keyword FROM, field)
DeleteStatement(style, table) ==
    SQL_KEYWORD(style, <<"D", "E", "L", "E", "T", "E">>) \o <<" ">>
        \o SQL_KEYWORD(style, <<"F", "R", "O", "M">>) \o <<" ">>
        \o SQL_FIELD(style, quote_name(table)) \o <<";">>

sql_flush(style, tables) ==
    [i \in 1 .. Len(tables) |-> DeleteStatement(style, tables[i])]

RECURSIVE ExecuteAll(_, _)
\* for sql in sql_list: cursor.execute(sql)
ExecuteAll(c, sql_list) ==
    IF sql_list = <<>> THEN c
    ELSE ExecuteAll(cursor_execute(c, Head(sql_list)), Tail(sql_list))

\* execute_sql_flush(sql_list); statement number fail_at raises (0: none).
\* Without a connection the first assignment raises AttributeError.
execute_sql_flush(c, sql_list, fail_at) ==
    IF ~c.open THEN c
    ELSE LET c1 == set_read_only(c, "False")
             c2 == transaction_enter(c1)
             sent == IF fail_at = 0 THEN sql_list
                     ELSE SubSeq(sql_list, 1, fail_at)
             c3 == ExecuteAll(c2, sent)
         IN  transaction_exit(c3, fail_at # 0)

\* sequence_reset_sql(style, model_list)
sequence_reset_sql(style, model_list) == <<>>

(***************************************************************************)
(* base.py: DatabaseIntrospection                                          *)
(***************************************************************************)
TableListQuery == "SELECT tablename FROM pg_tables where schemaname = 'public'"

RowNames == {"t1", "t2"}

RowSeqs == UNION { [1 .. n -> { <<r>> : r \in RowNames }] : n \in 0 .. MaxRows }

TableInfo_mut(name, type) == [name |-> name, type |-> "v"]

TableInfo(name, type) == [name |-> name, type |-> type]

\* [TableInfo(row[0], "t") for row in cursor.fetchall()]
TableList(rows) == [i \in 1 .. Len(rows) |-> TableInfo(rows[i][1], "t")]

\* the connection after get_table_list(cursor)
get_table_list(c, outcome) ==
    LET c1 == set_read_only(c, "True")
        c2 == transaction_enter(c1)
        c3 == cursor_execute(c2, TableListQuery)
    IN  transaction_exit(c3, outcome = "raise")

(***************************************************************************)
(* patch.py                                                                *)
(***************************************************************************)
\* settings.DATABASES[alias]["ENGINE"]
DATABASES == [default |-> "django.db.backends.postgresql", xtdb |-> "django_xtdb"]

\* router.db_for_write(cls)
db_for_write(cls) == IF cls = "Article" THEN "xtdb" ELSE "default"

is_xtdb_model(cls) == DATABASES[db_for_write(cls)] = "django_xtdb"

DefaultValues == {"NOT_PROVIDED", "None", "caller_value"}
RemoteFields == {"None", "relation", "parent_link"}
FieldNames == {"id", "parent_ptr"}

Fields ==
    { [primary_key |-> pk, is_auto |-> au, default |-> d, db_column |-> col,
       db_returning |-> au, remote_field |-> rf] :
        pk \in BOOLEAN, au \in BOOLEAN, d \in DefaultValues,
        col \in {"None", "custom"}, rf \in RemoteFields }

\* the field after the patched contribute_to_class, before the original runs
contribute_to_class(self, cls) ==
    LET f1 == IF self.primary_key /\ is_xtdb_model(cls)
              THEN LET g == [self EXCEPT !.db_column = "_id"]
                   IN  IF g.default = "NOT_PROVIDED" /\ g.is_auto
                       THEN [g EXCEPT !.default = "time_ns",
                                      !.db_returning = FALSE]
                       ELSE g
              ELSE self
    IN  IF f1.remote_field # "None" /\ f1.remote_field = "parent_link"
           /\ is_xtdb_model(cls)
        THEN [f1 EXCEPT !.db_column = "_id"]
        ELSE f1

\* the framework's Field.contribute_to_class(cls, name, private_only)
orig_contribute_to_class(log, cls, name, private_only) ==
    Append(log, <<cls, name, private_only>>)

\* monkey_patch(): Field.orig_contribute_to_class = Field.contribute_to_class,
\* then Field.contribute_to_class = contribute_to_class
monkey_patch(n) == n + 1

\* Field.contribute_to_class is the patch: monkey_patch has run
PatchInstalled(n) == n >= 1

\* Field.orig_contribute_to_class is the patch too: monkey_patch ran again and
\* saved the already patched method, so the patch calls itself
OrigIsPatch(n) == n >= 2

\* time.time_ns(): the wall clock, which the system may set back
time_ns(now) == now

(***************************************************************************)
(* Spec: whole requests, one after the other                               *)
(***************************************************************************)
Conn == [open |-> connected, read_only |-> read_only, depth |-> tx_depth,
         calls |-> <<>>]

Pre == [open |-> connected, read_only |-> read_only, depth |-> tx_depth]

NoRequest == [op |-> "none", pre |-> [open |-> FALSE, read_only |-> "None",
                                      depth |-> 0],
              outcome |-> "ok", store |-> 0, input |-> <<>>, style |-> "none",
              fail_at |-> 0, status |-> "ok", ret |-> <<>>]

Request(op, outcome, store, input, style, fail_at, status, ret) ==
    [op |-> op, pre |-> Pre, outcome |-> outcome, store |-> store,
     input |-> input, style |-> style, fail_at |-> fail_at,
     status |-> status, ret |-> ret]

Install(c) ==
    /\ connected' = c.open
    /\ read_only' = c.read_only
    /\ tx_depth' = c.depth
    /\ calls' = c.calls

CompilerExecuteSql(cat) ==
    \E outcome \in Outcomes, store_ret \in StoreCounts :
        /\ Install(execute_sql(Conn, cat, outcome))
        /\ last' = Request(cat, outcome, store_ret, <<>>, "none", 0,
                           IF outcome = "raise" THEN "raised" ELSE "ok",
                           IF outcome = "raise" THEN <<>>
                           ELSE <<Return(cat, store_ret)>>)
        /\ UNCHANGED <<patchVars, clockVars, threadVars>>

Aggregate ==
    \E outcome \in Outcomes, store_ret \in StoreCounts :
        /\ Install(aggregate_execute_sql(Conn, outcome))
        /\ last' = Request("AGGREGATE", outcome, store_ret, <<>>, "none", 0,
                           IF outcome = "raise" THEN "raised" ELSE "ok",
                           IF outcome = "raise" THEN <<>> ELSE <<store_ret>>)
        /\ UNCHANGED <<patchVars, clockVars, threadVars>>

Select == CompilerExecuteSql("SELECT")
Insert == CompilerExecuteSql("INSERT")
Update == CompilerExecuteSql("UPDATE")
Delete == CompilerExecuteSql("DELETE")

Ddl(op, c) ==
    /\ Install(c)
    /\ last' = Request(op, "ok", 0, <<>>, "none", 0, "ok", <<>>)
    /\ UNCHANGED <<patchVars, clockVars, threadVars>>

CreateModel == \E m \in Models : Ddl("create_model", create_model(Conn, m))
AlterUniqueTogether ==
    \E m \in Models : Ddl("alter_unique_together", alter_unique_together(Conn, m))
RemoveField == \E m \in Models : Ddl("remove_field", remove_field(Conn, m))
AlterField == \E m \in Models : Ddl("alter_field", alter_field(Conn, m))
AddField == \E m \in Models : Ddl("add_field", add_field(Conn, m))

Flush ==
    \E tables \in TableSeqs, style \in Styles :
      \E fail_at \in 0 .. Len(tables) :
        /\ Install(execute_sql_flush(Conn, sql_flush(style, tables), fail_at))
        /\ last' = Request("flush", IF fail_at = 0 THEN "ok" ELSE "raise", 0,
                           tables, style, fail_at,
                           IF ~connected THEN "AttributeError"
                           ELSE IF fail_at # 0 THEN "raised" ELSE "ok",
                           <<>>)
        /\ UNCHANGED <<patchVars, clockVars, threadVars>>

GetTableList ==
    \E rows \in RowSeqs, outcome \in Outcomes :
        /\ connected
        /\ Install(get_table_list(Conn, outcome))
        /\ last' = Request("get_table_list", outcome, 0, rows, "none", 0,
                           IF outcome = "raise" THEN "raised" ELSE "ok",
                           IF outcome = "raise" THEN <<>> ELSE TableList(rows))
        /\ UNCHANGED <<patchVars, clockVars, threadVars>>

SequenceResetSql ==
    \E style \in Styles, m \in Models :
        /\ Install(Conn)
        /\ last' = Request("sequence_reset_sql", "ok", 0, <<m>>, style, 0,
                           "ok", sequence_reset_sql(style, <<m>>))
        /\ UNCHANGED <<patchVars, clockVars, threadVars>>

NoField == [primary_key |-> FALSE, is_auto |-> FALSE, default |-> "NOT_PROVIDED",
            db_column |-> "None", db_returning |-> FALSE,
            remote_field |-> "None"]

NoBefore == [field |-> NoField, args |-> <<>>, patches |-> 0, status |-> "none"]

IdlePatch ==
    field = NoField /\ before = NoBefore /\ orig_calls = <<>> /\ patches = 0
IdleClock == clock = 1 /\ prev_id = 0 /\ cur_id = 0
IdleThreads ==
    /\ pc = [t \in 1 .. NumThreads |-> "idle"]
    /\ stmt = [t \in 1 .. NumThreads |-> "none"]
    /\ serialize = TRUE
    /\ mismatch = FALSE
    /\ changed_in_tx = FALSE

Init ==
    /\ connected \in BOOLEAN
    /\ read_only = "None"
    /\ tx_depth = 0
    /\ calls = <<>>
    /\ last = NoRequest
    /\ IdlePatch /\ IdleClock /\ IdleThreads

Next ==
    \/ Select
    \/ Insert
    \/ Update
    \/ Delete
    \/ Aggregate
    \/ CreateModel
    \/ AlterUniqueTogether
    \/ RemoveField
    \/ AlterField
    \/ AddField
    \/ Flush
    \/ GetTableList
    \/ SequenceResetSql

Spec == Init /\ [][Next]_vars

IdleConn ==
    /\ read_only = "None"
    /\ tx_depth = 0
    /\ calls = <<>>
    /\ last = NoRequest

(***************************************************************************)
(* SpecPatch: Field.contribute_to_class applied to one field               *)
(***************************************************************************)
InitPatch ==
    /\ field \in Fields
    /\ before = NoBefore
    /\ orig_calls = <<>>
    /\ patches = 0
    /\ connected = FALSE
    /\ IdleConn /\ IdleClock /\ IdleThreads

\* monkey_patch() is called (once more)
MonkeyPatch ==
    /\ patches < MaxPatches
    /\ patches' = monkey_patch(patches)
    /\ UNCHANGED <<field, before, orig_calls, connVars, clockVars, threadVars>>

\* field.contribute_to_class(cls, name, private_only), as the framework calls
\* it while building a model class.  Unpatched it is the framework's method.
\* Patched once, the patch runs and then the original.  Patched again, the
\* patch's last line calls the patch, which ends in RecursionError without
\* ever reaching the original.
ContributeToClass ==
    \E cls \in Models, name \in FieldNames, private_only \in BOOLEAN :
        /\ before.args = <<>>
        /\ before' = [field |-> field, args |-> <<cls, name, private_only>>,
                      patches |-> patches,
                      status |-> IF OrigIsPatch(patches) THEN "RecursionError"
                                 ELSE "ok"]
        /\ field' = IF PatchInstalled(patches)
                     THEN contribute_to_class(field, cls) ELSE field
        /\ orig_calls' = IF OrigIsPatch(patches) THEN orig_calls
                          ELSE orig_contribute_to_class(orig_calls, cls, name,
                                                        private_only)
        /\ UNCHANGED <<patches, connVars, clockVars, threadVars>>

NextPatch == MonkeyPatch \/ ContributeToClass

SpecPatch == InitPatch /\ [][NextPatch]_vars

(***************************************************************************)
(* SpecClock: identifiers taken from time.time_ns                          *)
(***************************************************************************)
InitClock ==
    /\ IdleClock
    /\ connected = FALSE
    /\ IdleConn /\ IdlePatch /\ IdleThreads

\* time passes
Tick ==
    /\ clock < MaxClock
    /\ clock' = clock + 1
    /\ UNCHANGED <<prev_id, cur_id, connVars, patchVars, threadVars>>

\* the system clock is set back (administrator, NTP step)
ClockSetBack ==
    \E t \in 1 .. clock - 1 :
        /\ clock' = t
        /\ UNCHANGED <<prev_id, cur_id, connVars, patchVars, threadVars>>

\* field.get_default() for a record without identifier: self.default()
AllocateId ==
    /\ prev_id' = cur_id
    /\ cur_id' = time_ns(clock)
    /\ UNCHANGED <<clock, connVars, patchVars, threadVars>>

NextClock == Tick \/ ClockSetBack \/ AllocateId

SpecClock == InitClock /\ [][NextClock]_vars

(***************************************************************************)
(* SpecThreads: statements of several callers on one connection.  A thread *)
(* moves by one check or one driver call per step.  An overriding          *)
(* execute_sql that finds the connection open assigns read_only, enters    *)
(* the transaction, executes and leaves the transaction.  One that finds   *)
(* no connection, and the aggregate compiler always, runs the framework's  *)
(* execute_sql alone: connect when needed, then execute.                   *)
(***************************************************************************)
Threads == 1 .. NumThreads

ThreadOps == Categories \cup {"AGGREGATE"}

InTransaction(t) == pc[t] \in {"in_tx", "executed"}

\* the mode a statement of this compiler needs: an aggregate is a SELECT
Mismatches(op, ro) ==
    IF op \in {"SELECT", "AGGREGATE"} THEN ro # "True" ELSE ro # "False"

InitThreads ==
    /\ connected \in BOOLEAN
    /\ IdleConn /\ IdlePatch /\ IdleClock
    /\ pc = [t \in Threads |-> "idle"]
    /\ stmt = [t \in Threads |-> "none"]
    /\ serialize \in BOOLEAN
    /\ mismatch = FALSE
    /\ changed_in_tx = FALSE

\* execute_sql is called; if self.connection.connection: ... else: ...
T_Start(t) ==
    \E op \in ThreadOps :
        /\ pc[t] = "idle"
        /\ serialize => \A u \in Threads : pc[u] = "idle"
        /\ stmt' = [stmt EXCEPT ![t] = op]
        /\ pc' = [pc EXCEPT ![t] = IF op \in Categories /\ connected
                                   THEN "open_branch" ELSE "else_branch"]
        /\ UNCHANGED <<connVars, serialize, mismatch, changed_in_tx,
                       patchVars, clockVars>>

\* self.connection.connection.read_only = ...
T_SetReadOnly(t) ==
    LET c == set_read_only(Conn, ModeFor(stmt[t])) IN
    /\ pc[t] = "open_branch"
    /\ read_only' = c.read_only
    /\ changed_in_tx' = (changed_in_tx \/
           (c.read_only # read_only
            /\ \E u \in Threads \ {t} : InTransaction(u)))
    /\ pc' = [pc EXCEPT ![t] = "flag_set"]
    /\ UNCHANGED <<connected, tx_depth, calls, last, stmt, serialize,
                   mismatch, patchVars, clockVars>>

\* with self.connection.connection.transaction():
T_Enter(t) ==
    /\ pc[t] = "flag_set"
    /\ tx_depth' = transaction_enter(Conn).depth
    /\ pc' = [pc EXCEPT ![t] = "in_tx"]
    /\ UNCHANGED <<connected, read_only, calls, last, stmt, serialize,
                   mismatch, changed_in_tx, patchVars, clockVars>>

\* super().execute_sql(*args, **kwargs) inside the with block
T_Execute(t) ==
    /\ pc[t] = "in_tx"
    /\ mismatch' = (mismatch \/ Mismatches(stmt[t], read_only))
    /\ pc' = [pc EXCEPT ![t] = "executed"]
    /\ UNCHANGED <<connected, read_only, tx_depth, calls, last, stmt,
                   serialize, changed_in_tx, patchVars, clockVars>>

\* the end of the with block, then return
T_Exit(t) ==
    \E outcome \in Outcomes :
        /\ pc[t] = "executed"
        /\ tx_depth' = transaction_exit(Conn, outcome = "raise").depth
        /\ pc' = [pc EXCEPT ![t] = "idle"]
        /\ stmt' = [stmt EXCEPT ![t] = "none"]
        /\ UNCHANGED <<connected, read_only, calls, last, serialize,
                       mismatch, changed_in_tx, patchVars, clockVars>>

\* else: super().execute_sql(...), first half: the framework opens a cursor,
\* connecting when there is no connection
T_Connect(t) ==
    LET c == ensure_connection(Conn) IN
    /\ pc[t] = "else_branch"
    /\ connected' = c.open
    /\ read_only' = c.read_only
    /\ pc' = [pc EXCEPT ![t] = "else_connected"]
    /\ UNCHANGED <<tx_depth, calls, last, stmt, serialize, mismatch,
                   changed_in_tx, patchVars, clockVars>>

\* else: super().execute_sql(...), second half: the statement is sent, then
\* return
T_ExecuteUnscoped(t) ==
    /\ pc[t] = "else_connected"
    /\ mismatch' = (mismatch \/ Mismatches(stmt[t], read_only))
    /\ pc' = [pc EXCEPT ![t] = "idle"]
    /\ stmt' = [stmt EXCEPT ![t] = "none"]
    /\ UNCHANGED <<connected, read_only, tx_depth, calls, last, serialize,
                   changed_in_tx, patchVars, clockVars>>

NextThreads ==
    \/ \E t \in Threads : T_Start(t)
    \/ \E t \in Threads : T_SetReadOnly(t)
    \/ \E t \in Threads : T_Enter(t)
    \/ \E t \in Threads : T_Execute(t)
    \/ \E t \in Threads : T_Exit(t)
    \/ \E t \in Threads : T_Connect(t)
    \/ \E t \in Threads : T_ExecuteUnscoped(t)

SpecThreads == InitThreads /\ [][NextThreads]_vars

(***************************************************************************)
(* Properties                                                              *)
(***************************************************************************)
RequiredMode(cat) ==
    IF cat \in {"SELECT", "AGGREGATE"} THEN "True" ELSE "False"

CompilerOps == Categories \cup {"AGGREGATE"}

ExecuteEvents == { k \in DOMAIN calls : calls[k].ev = "execute" }

DdlOps == {"create_model", "add_field", "alter_field", "remove_field",
           "alter_unique_together"}

\* C1 (as claimed): every statement a compiler executes, the first one on a
\* connection and an aggregate SELECT included, is sent with read_only already set to match its
\* category, inside a transaction scope opened after the flag was set and
\* closed when the statement finishes.
C1_EveryStatementInModeAndScope ==
    last.op \in CompilerOps =>
        /\ ExecuteEvents # {}
        /\ \A k \in ExecuteEvents :
              /\ calls[k].ro = RequiredMode(last.op)
              /\ calls[k].depth >= 1
              /\ \E i \in 1 .. k, j \in 1 .. k :
                    /\ i < j /\ j < k
                    /\ calls[i].ev = "set_read_only"
                    /\ calls[i].arg = RequiredMode(last.op)
                    /\ calls[j].ev = "begin"
              /\ \E l \in DOMAIN calls :
                    l > k /\ calls[l].ev \in {"commit", "rollback"}
        /\ tx_depth = 0

\* C2 (as claimed): a statement issued on a connection whose mode does not
\* match its category fails with ModeViolation, sends nothing, and leaves
\* the connection as it was.
C2_ModeViolationRaised ==
    (/\ last.op \in CompilerOps
     /\ last.pre.open
     /\ last.pre.read_only \in {"True", "False"}
     /\ last.pre.read_only # RequiredMode(last.op))
    => /\ last.status = "ModeViolation"
       /\ read_only = last.pre.read_only
       /\ ExecuteEvents = {}

\* C2 (amended): a statement issued on an open connection whose mode does
\* not match its category is not rejected.  SQLCompiler, SQLInsertCompiler,
\* SQLUpdateCompiler and SQLDeleteCompiler overwrite read_only with the mode
\* of the category and send the statement in that mode; SQLAggregateCompiler
\* sends its SELECT with read_only left as it is, outside any transaction
\* scope.  Either way the request ends the way the store's execution ends.
C2_ModeOverwritten ==
    (/\ last.op \in CompilerOps
     /\ last.pre.open
     /\ last.pre.read_only # RequiredMode(last.op))
    => /\ Cardinality(ExecuteEvents) = 1
       /\ last.status = (IF last.outcome = "ok" THEN "ok" ELSE "raised")
       /\ last.op \in Categories =>
             /\ read_only = RequiredMode(last.op)
             /\ \A k \in ExecuteEvents :
                   calls[k].ro = RequiredMode(last.op) /\ calls[k].depth = 1
       /\ last.op = "AGGREGATE" =>
             /\ read_only = last.pre.read_only
             /\ \A k \in ExecuteEvents :
                   calls[k].ro = last.pre.read_only /\ calls[k].depth = 0

C2_Witness ==
    /\ last.op = "INSERT"
    /\ last.pre.open
    /\ last.pre.read_only = "True"
    /\ last.status = "ok"
    /\ read_only = "False"

\* C3: an UPDATE that completes reports exactly 1 row, whatever the store
\* answered and whether or not a connection was open.
C3_UpdateReportsOne ==
    (last.op = "UPDATE" /\ last.status = "ok") => last.ret = <<1>>

C3_Witness ==
    /\ last.op = "UPDATE"
    /\ last.status = "ok"
    /\ last.store = 0
    /\ ~last.pre.open
    /\ last.ret = <<1>>

\* C4: every schema editor request succeeds, sends nothing to the store and
\* leaves the connection, its mode flag and its transaction state unchanged.
C4_DdlIsNoOp ==
    last.op \in DdlOps =>
        /\ last.status = "ok"
        /\ calls = <<>>
        /\ connected = last.pre.open
        /\ read_only = last.pre.read_only
        /\ tx_depth = last.pre.depth

C4_Witness ==
    /\ last.op = "create_model"
    /\ last.pre.open
    /\ last.pre.read_only = "False"
    /\ read_only = "False"

\* C5 (as claimed): an allocated identifier is positive (every reading of
\* the modelled clock is far below 2^63), and of two identifiers allocated
\* one after the other the later is >= the earlier.
C5_IdsPositiveAndNonDecreasing ==
    /\ cur_id # 0 => (cur_id > 0 /\ cur_id <= MaxClock)
    /\ (prev_id # 0 /\ cur_id # 0) => cur_id >= prev_id

PatchFrame ==
    LET f0 == before.field
        x == DATABASES[db_for_write(before.args[1])] = "django_xtdb"
        idcol == x /\ (f0.primary_key \/ f0.remote_field = "parent_link")
        alloc == /\ x
                 /\ f0.primary_key
                 /\ f0.is_auto
                 /\ f0.default = "NOT_PROVIDED"
    IN  /\ field.db_column = (IF idcol THEN "_id" ELSE f0.db_column)
        /\ field.default = (IF alloc THEN "time_ns" ELSE f0.default)
        /\ field.db_returning = (IF alloc THEN FALSE ELSE f0.db_returning)
        /\ field.primary_key = f0.primary_key
        /\ field.is_auto = f0.is_auto
        /\ field.remote_field = f0.remote_field

\* C6 (as claimed): whenever the patched contribute_to_class runs, on a model
\* of the XTDB engine a primary key or parent link gets db_column "_id"; the
\* time_ns default and db_returning = False are installed exactly for a
\* primary key AutoField without default; nothing else changes; and in every
\* case the original method is then called exactly once with the same
\* arguments.
C6_PatchFrame ==
    (before.args # <<>> /\ PatchInstalled(before.patches)) =>
        /\ PatchFrame
        /\ before.status = "ok"
        /\ orig_calls = <<before.args>>

\* C6, the part that holds: the field changes are as claimed however often
\* monkey_patch ran, and after a single monkey_patch the original is called
\* exactly once with the same arguments.
C6_PatchedOnce ==
    /\ (before.args # <<>> /\ PatchInstalled(before.patches)) => PatchFrame
    /\ (before.args # <<>> /\ before.patches = 1) =>
            (before.status = "ok" /\ orig_calls = <<before.args>>)

QuotedName(t) ==
    IF t[1] = "\"" /\ t[Len(t)] = "\"" THEN t ELSE <<"\"">> \o t \o <<"\"">>

ExpectedDelete(style, t) ==
    IF style = "no_style"
    THEN <<"D", "E", "L", "E", "T", "E", " ", "F", "R", "O", "M", " ">>
            \o QuotedName(t) \o <<";">>
    ELSE <<"ESC[33m", "D", "E", "L", "E", "T", "E", "ESC[0m", " ",
           "ESC[33m", "F", "R", "O", "M", "ESC[0m", " ", "ESC[32;1m">>
            \o QuotedName(t) \o <<"ESC[0m", ";">>

FlushShape ==
    LET n == Len(last.input) IN
    /\ Len(calls) = n + 3
    /\ calls[1].ev = "set_read_only" /\ calls[1].arg = "False"
    /\ calls[2].ev = "begin"
    /\ \A i \in 1 .. n :
          /\ calls[2 + i].ev = "execute"
          /\ calls[2 + i].ro = "False"
          /\ calls[2 + i].depth = 1
    /\ calls[n + 3].ev = "commit"
    /\ read_only = "False"
    /\ tx_depth = 0

\* C7 (as claimed): a flush of any list of tables t1..tn sets the connection
\* to write mode and then executes, in order and inside one transaction scope
\* (one begin, one commit), exactly one DELETE statement per table.  The
\* table name is read here as sql_flush renders it, through quote_name and
\* the style, so that only the behaviour of the flush is at stake.
C7_FlushWritesInOneScope ==
    (last.op = "flush" /\ last.outcome = "ok")
    => /\ last.status = "ok"
       /\ FlushShape
       /\ \A i \in 1 .. Len(last.input) :
             calls[2 + i].arg = ExpectedDelete(last.style, last.input[i])

\* C7, the part that holds: on an open connection the flush does all of the
\* above; the statement for table a on a plain style is DELETE FROM "a";
C7_FlushOnOpenConnection ==
    (last.op = "flush" /\ last.pre.open /\ last.outcome = "ok")
    => /\ last.status = "ok"
       /\ FlushShape
       /\ \A i \in 1 .. Len(last.input) :
             calls[2 + i].arg = ExpectedDelete(last.style, last.input[i])

\* C8: get_table_list sets read-only mode, then inside one transaction scope
\* sends the fixed pg_tables query, and returns one descriptor per row, in
\* row order, named after the row's first column and of type "t".
C8_TableList ==
    last.op = "get_table_list" =>
        /\ Len(calls) = 4
        /\ calls[1].ev = "set_read_only" /\ calls[1].arg = "True"
        /\ calls[2].ev = "begin"
        /\ calls[3].ev = "execute"
        /\ calls[3].arg =
              "SELECT tablename FROM pg_tables where schemaname = 'public'"
        /\ calls[3].ro = "True"
        /\ calls[3].depth = 1
        /\ calls[4].ev \in {"commit", "rollback"}
        /\ tx_depth = 0
        /\ last.status = "ok" =>
              /\ Len(last.ret) = Len(last.input)
              /\ \A i \in 1 .. Len(last.input) :
                    last.ret[i] = [name |-> last.input[i][1], type |-> "t"]

C8_Witness ==
    /\ last.op = "get_table_list"
    /\ last.status = "ok"
    /\ last.pre.read_only = "False"
    /\ last.input = << <<"t2">>, <<"t1">> >>
    /\ Len(last.ret) = 2

\* C9 (as claimed): when the caller serializes statements, no statement is
\* sent while read_only does not match its category and read_only is never
\* changed while another statement's transaction is open.
C9_SerializedIsSafe ==
    serialize => (~mismatch /\ ~changed_in_tx)

\* C9, the half that holds: without serialization a state is reachable in
\* which a statement of an overriding compiler was sent under the wrong flag
\* and the flag was changed inside another statement's transaction.
C9_InterleavedBroken ==
    ~serialize /\ changed_in_tx /\ mismatch

\* C10: when execution raises inside the transaction scope of a compiler or
\* of the flush, the scope is closed, nothing is returned (UPDATE does not
\* report 1), the flush sends no statement after the failing one, and
\* read_only keeps the value set for the failed statement.
C10_FailurePath ==
    (last.status = "raised" /\ last.pre.open
        /\ last.op \in Categories \cup {"flush"})
    => /\ tx_depth = 0
       /\ calls[Len(calls)].ev = "rollback"
       /\ last.ret = <<>>
       /\ read_only = RequiredMode(last.op)
       /\ last.op = "flush" => Cardinality(ExecuteEvents) = last.fail_at

C10_Witness ==
    /\ last.op = "flush"
    /\ last.status = "raised"
    /\ last.pre.read_only = "True"
    /\ Len(last.input) = 2
    /\ last.fail_at = 1
    /\ read_only = "False"
    /\ tx_depth = 0
====
